---- MODULE Spec2Model ----
(***************************************************************************)
(* A model of skel (krpors/skel): the variable substitutor findReplace,    *)
(* the archive extractor Unzip, the tree walk of Skeleton.walkFunc and     *)
(* the control flow of main, as found in the latest revision of the       *)
(* program (src/unnamed/part_000, lines 221-567).                          *)
(*                                                                         *)
(* A text (a Go string) is a sequence of one-character strings.  In path   *)
(* texts the symbol "config.xml" stands for that whole file name.          *)
(***************************************************************************)
EXTENDS Integers, Sequences, FiniteSets, TLC

VARIABLES
    \* ---- the Skeleton fields used by findReplace ----
    KeyValues,      \* Skeleton.KeyValues: function from key text to value text
    Unsubstituted,  \* Skeleton.Unsubstituted: set of texts
    \* ---- two successive applications of findReplace to one text ----
    src,            \* the argument of the first call
    res1,           \* what the first call returned
    res2,           \* what the call on res1 returned
    calls,          \* number of findReplace calls made so far (0..2)
    \* ---- one run of main ----
    pc,             \* where main is
    exitCode,       \* the exit status once pc = "exited", -1 before
    flagIn,         \* kind of the -in argument
    flagDryRun,     \* -dry
    flagVerbose,    \* -verbose
    zipFile,        \* r.File: the entries of the archive, in archive order
    zi,             \* index of the next archive entry Unzip handles
    srcFs,          \* the tree under -in when -in is a directory
    tmpDir,         \* the scratch directory: "none", "exists", "removed"
    tmpFs,          \* the tree under the scratch directory
    isZip,          \* main's isZip
    Location,       \* Skeleton.Location
    walkTodo,       \* entries filepath.Walk has still to hand to walkFunc
    walked,         \* one record per walkFunc call: the entry and its target
    outFs,          \* what exists under the output directory
    mutated,        \* names of the calls that have changed the filesystem
    ioFault         \* a call failed for a reason outside archive and tree

substVars == <<src, res1, res2, calls>>

runVars == <<pc, exitCode, flagIn, flagDryRun, flagVerbose, zipFile, zi,
             srcFs, tmpDir, tmpFs, isZip, Location, walkTodo, walked,
             outFs, mutated, ioFault>>

vars == <<KeyValues, Unsubstituted, substVars, runVars>>

-----------------------------------------------------------------------------
(* Bounds of the model.                                                    *)

\* number of pieces a text handed to findReplace is built from
MaxPieces == 3

-----------------------------------------------------------------------------
(* Texts.                                                                  *)

NL == "\n"

RECURSIVE Flatten(_)
Flatten(ss) == IF ss = <<>> THEN <<>> ELSE Head(ss) \o Flatten(Tail(ss))

\* s has old at position i
HasAt(s, old, i) ==
    /\ i >= 1
    /\ i + Len(old) - 1 <= Len(s)
    /\ SubSeq(s, i, i + Len(old) - 1) = old

Contains(s, old) == \E i \in 1..(Len(s) + 1) : HasAt(s, old, i)

\* strings.Replace(s, old, new, -1) for a non-empty old: the non-overlapping
\* occurrences of old, found left to right, are replaced by new; the text
\* inserted is not scanned again.
RECURSIVE ReplaceFrom(_, _, _, _)
ReplaceFrom(s, old, new, i) ==
    IF i > Len(s) THEN <<>>
    ELSE IF HasAt(s, old, i) THEN new \o ReplaceFrom(s, old, new, i + Len(old))
    ELSE <<s[i]>> \o ReplaceFrom(s, old, new, i + 1)

\* a Replace that stops after the first occurrence (n = 1 instead of -1)
stringsReplaceOnce(s, old, new) ==
    IF ~Contains(s, old) \/ old = <<>> THEN s
    ELSE LET i == CHOOSE m \in 1..Len(s) :
                      /\ HasAt(s, old, m)
                      /\ \A n \in 1..(m - 1) : ~HasAt(s, old, n)
         IN  SubSeq(s, 1, i - 1) \o new \o SubSeq(s, i + Len(old), Len(s))

stringsReplace(s, old, new) ==
    IF old = <<>> THEN s ELSE ReplaceFrom(s, old, new, 1)

\* fmt.Sprintf("${%s}", k)
haha(k) == <<"$", "{">> \o k \o <<"}">>

\* The positions (i, j) at which regexp "\${(.+)}" can match a text: "${" at
\* i, "}" at j, at least one character between them and, since "." does not
\* match a newline, no newline between them.
RegexMatchAt(s, i, j) ==
    /\ HasAt(s, <<"$", "{">>, i)
    /\ j >= i + 3
    /\ j <= Len(s)
    /\ s[j] = "}"
    /\ \A m \in (i + 2)..(j - 1) : s[m] # NL

RegexStarts(s) == {i \in 1..Len(s) : \E j \in 1..Len(s) : RegexMatchAt(s, i, j)}

Min(S) == CHOOSE x \in S : \A y \in S : x <= y
Max(S) == CHOOSE x \in S : \A y \in S : x >= y

\* regexp.FindString: the leftmost match; ".+" is greedy, so the match runs
\* to the last "}" it can reach.  "" when there is no match.
regexFindString(s) ==
    IF RegexStarts(s) = {} THEN <<>>
    ELSE LET i == Min(RegexStarts(s))
             j == Max({m \in 1..Len(s) : RegexMatchAt(s, i, m)})
         IN  SubSeq(s, i, j)

-----------------------------------------------------------------------------
(* Skeleton.findReplace.                                                   *)

\* All orders in which "for k, v := range t.KeyValues" can deliver the keys:
\* Go leaves the iteration order of a map unspecified.
RangeOrders(kv) ==
    {o \in [1..Cardinality(DOMAIN kv) -> DOMAIN kv] :
        \A i, j \in DOMAIN o : i # j => o[i] # o[j]}

\* a loop that is left after its first turn
ReplaceLoopFirstKey(s, kv, order) ==
    IF order = <<>> THEN s
    ELSE stringsReplace(s, haha(Head(order)), kv[Head(order)])

\* the loop of findReplace, the keys taken in the given order
RECURSIVE ReplaceLoop(_, _, _)
ReplaceLoop(s, kv, order) ==
    IF order = <<>> THEN s
    ELSE ReplaceLoop(stringsReplace(s, haha(Head(order)), kv[Head(order)]),
                     kv, Tail(order))

\* the text findReplace returns
findReplace(s, kv, order) == ReplaceLoop(s, kv, order)

\* the Unsubstituted set after findReplace returned text r
Record(r, unsub) ==
    LET strfound == regexFindString(r)
    IN  IF strfound # <<>> THEN unsub \cup {strfound} ELSE unsub

-----------------------------------------------------------------------------
(* Inputs of the substitution specification.                               *)

KeyA == <<"a">>
KeyB == <<"b">>
Keys == {KeyA, KeyB}

\* the values a user can type for a parameter (ReadUserInput takes the raw
\* line, the empty line included)
Values == {<<>>, <<"X">>, <<"}">>, <<"{", "b", "}">>, <<"$", "{", "b", "}">>}

Mappings == UNION {[ks -> Values] : ks \in SUBSET Keys}

Pieces == {<<"$">>, <<"{">>, <<"}">>, <<"a">>, <<NL>>,
           <<"$", "{">>, haha(KeyA), haha(KeyB)}

Texts == {Flatten(ps) : ps \in UNION {[1..n -> Pieces] : n \in 0..MaxPieces}}

-----------------------------------------------------------------------------
(* The substitution specification: findReplace applied to a text, and      *)
(* then to its own result (walkFunc does so with targetpath).              *)

\* the variables of a run of main, while no run is modelled
RunIdle ==
    /\ pc = "idle"
    /\ exitCode = -1
    /\ flagIn = "none"
    /\ flagDryRun = FALSE
    /\ flagVerbose = FALSE
    /\ zipFile = <<>>
    /\ zi = 1
    /\ srcFs = {}
    /\ tmpDir = "none"
    /\ tmpFs = {}
    /\ isZip = FALSE
    /\ Location = <<>>
    /\ walkTodo = <<>>
    /\ walked = <<>>
    /\ outFs = {}
    /\ mutated = {}
    /\ ioFault = FALSE

InitSubst ==
    /\ KeyValues \in Mappings
    /\ Unsubstituted = {}
    /\ src \in Texts
    /\ res1 = <<>>
    /\ res2 = <<>>
    /\ calls = 0
    /\ RunIdle

FindReplaceFirst ==
    /\ calls = 0
    /\ \E order \in RangeOrders(KeyValues) :
          /\ res1' = findReplace(src, KeyValues, order)
          /\ Unsubstituted' = Record(res1', Unsubstituted)
    /\ calls' = 1
    /\ UNCHANGED <<KeyValues, src, res2, runVars>>

FindReplaceAgain ==
    /\ calls = 1
    /\ \E order \in RangeOrders(KeyValues) :
          /\ res2' = findReplace(res1, KeyValues, order)
          /\ Unsubstituted' = Record(res2', Unsubstituted)
    /\ calls' = 2
    /\ UNCHANGED <<KeyValues, src, res1, runVars>>

NextSubst == FindReplaceFirst \/ FindReplaceAgain

SpecSubst == InitSubst /\ [][NextSubst]_vars

-----------------------------------------------------------------------------
(* Paths.  No path of the model has a "." or ".." element.                 *)

SEP == "/"

\* filepath.Clean: runs of separators become one separator, a trailing
\* separator goes, the empty path is "."
RECURSIVE Squeeze(_)
Squeeze(p) ==
    IF Len(p) <= 1 THEN p
    ELSE IF p[1] = SEP /\ p[2] = SEP THEN Squeeze(Tail(p))
    ELSE <<p[1]>> \o Squeeze(Tail(p))

Clean(p) ==
    LET q == Squeeze(p)
    IN  IF q = <<>> THEN <<".">>
        ELSE IF Len(q) > 1 /\ q[Len(q)] = SEP THEN SubSeq(q, 1, Len(q) - 1)
        ELSE q

\* filepath.Join: the non-empty elements, separated, then cleaned
RECURSIVE JoinRaw(_)
JoinRaw(elems) ==
    IF elems = <<>> THEN <<>>
    ELSE IF Head(elems) = <<>> THEN JoinRaw(Tail(elems))
    ELSE LET rest == JoinRaw(Tail(elems))
         IN  IF rest = <<>> THEN Head(elems) ELSE Head(elems) \o <<SEP>> \o rest

Join(elems) == IF JoinRaw(elems) = <<>> THEN <<>> ELSE Clean(JoinRaw(elems))

SepPositions(p) == {i \in 1..Len(p) : p[i] = SEP}

\* the directory a path lies in; <<>> is the directory the path starts from
Parent(p) ==
    IF SepPositions(p) = {} THEN <<>>
    ELSE SubSeq(p, 1, Max(SepPositions(p)) - 1)

\* a path and the directories above it
WithAncestors(p) ==
    {p} \cup {SubSeq(p, 1, i - 1) : i \in {j \in SepPositions(p) : j > 1}}

-----------------------------------------------------------------------------
(* Filesystem trees: sets of entries [path, isDir, data].                  *)

Dir(p) == [path |-> p, isDir |-> TRUE, data |-> <<>>]
File(p, d) == [path |-> p, isDir |-> FALSE, data |-> d]

DirsOf(fs) == {e.path : e \in {x \in fs : x.isDir}} \cup {<<>>}
FilesOf(fs) == {e.path : e \in {x \in fs : ~x.isDir}}

\* os.MkdirAll succeeds unless a file is in the way
CanMkdirAll(fs, p) == WithAncestors(p) \cap FilesOf(fs) = {}
MkdirAll(fs, p) == fs \cup {Dir(q) : q \in WithAncestors(p)}

\* os.Create and ioutil.WriteFile need the parent directory and no
\* directory at the path; they leave a file with the given content there
CanCreate(fs, p) == Parent(p) \in DirsOf(fs) /\ p \notin DirsOf(fs)
PutFile(fs, p, d) == {e \in fs : e.path # p} \cup {File(p, d)}

-----------------------------------------------------------------------------
(* Inputs of a run.                                                        *)

ConfigXml == <<"config.xml">>
PathD == <<"d">>
PathDS == <<"d", SEP, "s">>

\* -in when it names a directory, the scratch directory ioutil.TempDir
\* returns, -out, and Skeleton.outDirBase
InDir == <<"s">>
TempDirPath == <<SEP, "tmp", SEP, "skel1">>
flagOut == <<"__out">>
outDirBase == <<"base">>

\* the entries a skeleton is made of, as the tree holds them
Universe ==
    {File(ConfigXml, <<"c">>), Dir(PathD), File(PathDS, haha(KeyA))}

\* the lexical order in which filepath.Walk visits them below the root
UniverseOrder == <<ConfigXml, PathD, PathDS>>

\* directory trees: every entry has its parent directory
Trees == {t \in SUBSET Universe : \A e \in t : Parent(e.path) \in DirsOf(t)}

\* archives: entries of the universe, each once, in any order; an entry
\* marked bad cannot be opened for reading
ZipEntries == {[entry |-> e, bad |-> b] : e \in Universe, b \in BOOLEAN}

ZipFiles ==
    {z \in UNION {[1..n -> ZipEntries] : n \in 0..Cardinality(Universe)} :
        \A i, j \in DOMAIN z : i # j => z[i].entry # z[j].entry}

\* the mappings ReadUserInput can return in a run
RunMappings == {<<>>, [k \in {KeyA} |-> <<"X">>]}

-----------------------------------------------------------------------------
(* main, Unzip, ParseSkeleton, ReadUserInput, Walk, cleanup.               *)

Init ==
    /\ pc = "main"
    /\ exitCode = -1
    /\ flagIn \in {"empty", "missing", "dir", "zip", "notzip"}
    /\ flagDryRun \in BOOLEAN
    /\ flagVerbose \in BOOLEAN
    /\ zipFile \in (IF flagIn = "zip" THEN ZipFiles ELSE {<<>>})
    /\ zi = 1
    /\ srcFs \in (IF flagIn = "dir" THEN Trees ELSE {{}})
    /\ tmpDir = "none"
    /\ tmpFs = {}
    /\ isZip = FALSE
    /\ Location = <<>>
    /\ walkTodo = <<>>
    /\ walked = <<>>
    /\ outFs = {}
    /\ mutated = {}
    /\ ioFault = FALSE
    /\ KeyValues = <<>>
    /\ Unsubstituted = {}
    /\ src = <<>>
    /\ res1 = <<>>
    /\ res2 = <<>>
    /\ calls = 0

\* os.Exit(code), or the end of main with code 0
Exit(code) ==
    /\ pc' = "exited"
    /\ exitCode' = code

\* main up to the decision between directory and archive
MainOpenInput ==
    /\ pc = "main"
    /\ \/ /\ flagIn \in {"empty", "missing"}
          /\ Exit(1)
          /\ UNCHANGED <<Location, ioFault>>
       \/ /\ flagIn \in {"dir", "zip", "notzip"}
          /\ \E statFails \in BOOLEAN :
                IF statFails
                THEN Exit(1) /\ ioFault' = TRUE /\ UNCHANGED Location
                ELSE /\ pc' = IF flagIn = "dir" THEN "parse" ELSE "unzip"
                     /\ Location' = IF flagIn = "dir" THEN InDir ELSE <<>>
                     /\ UNCHANGED <<exitCode, ioFault>>
    /\ UNCHANGED <<KeyValues, Unsubstituted, substVars, flagIn, flagDryRun,
                   flagVerbose, zipFile, zi, srcFs, tmpDir, tmpFs, isZip,
                   walkTodo, walked, outFs, mutated>>

\* Unzip up to its loop: zip.OpenReader and ioutil.TempDir
UnzipOpen ==
    /\ pc = "unzip"
    /\ \/ /\ flagIn = "notzip"
          /\ Exit(1)
          /\ UNCHANGED <<tmpDir, mutated, ioFault>>
       \/ /\ flagIn = "zip"
          /\ \E tempDirFails \in BOOLEAN :
                IF tempDirFails
                THEN Exit(1) /\ ioFault' = TRUE /\ UNCHANGED <<tmpDir, mutated>>
                ELSE /\ pc' = "unzipLoop"
                     /\ tmpDir' = "exists"
                     /\ mutated' = mutated \cup {"TempDir"}
                     /\ UNCHANGED <<exitCode, ioFault>>
    /\ UNCHANGED <<KeyValues, Unsubstituted, substVars, flagIn, flagDryRun,
                   flagVerbose, zipFile, zi, srcFs, tmpFs, isZip, Location,
                   walkTodo, walked, outFs>>

\* one turn of Unzip's loop; an error returns targetDir and the error to
\* main, which exits with status 1
UnzipEntry ==
    /\ pc = "unzipLoop"
    /\ zi <= Len(zipFile)
    /\ LET f == zipFile[zi]
           name == f.entry.path
       IN  \E fault \in BOOLEAN :
             IF f.bad
             THEN Exit(1) /\ UNCHANGED <<zi, tmpFs, mutated, ioFault>>
             ELSE IF f.entry.isDir
             THEN IF CanMkdirAll(tmpFs, name) /\ ~fault
                  THEN /\ tmpFs' = MkdirAll(tmpFs, name)
                       /\ mutated' = mutated \cup {"MkdirAll"}
                       /\ zi' = zi + 1
                       /\ UNCHANGED <<pc, exitCode, ioFault>>
                  ELSE /\ Exit(1)
                       /\ ioFault' = (ioFault \/ fault)
                       /\ UNCHANGED <<zi, tmpFs, mutated>>
             ELSE IF ~CanCreate(tmpFs, name)
                  THEN Exit(1) /\ UNCHANGED <<zi, tmpFs, mutated, ioFault>>
                  ELSE IF fault
                  THEN \* io.Copy failed: the file was created and is empty
                       /\ Exit(1)
                       /\ tmpFs' = PutFile(tmpFs, name, <<>>)
                       /\ mutated' = mutated \cup {"Create"}
                       /\ ioFault' = TRUE
                       /\ UNCHANGED zi
                  ELSE /\ tmpFs' = PutFile(tmpFs, name, f.entry.data)
                       /\ mutated' = mutated \cup {"Create", "Copy"}
                       /\ zi' = zi + 1
                       /\ UNCHANGED <<pc, exitCode, ioFault>>
    /\ UNCHANGED <<KeyValues, Unsubstituted, substVars, flagIn, flagDryRun,
                   flagVerbose, zipFile, srcFs, tmpDir, isZip, Location,
                   walkTodo, walked, outFs>>

\* Unzip returns targetDir and no error; main notes the archive input
UnzipReturn ==
    /\ pc = "unzipLoop"
    /\ zi > Len(zipFile)
    /\ isZip' = TRUE
    /\ Location' = TempDirPath
    /\ pc' = "parse"
    /\ UNCHANGED <<KeyValues, Unsubstituted, substVars, exitCode, flagIn,
                   flagDryRun, flagVerbose, zipFile, zi, srcFs, tmpDir, tmpFs,
                   walkTodo, walked, outFs, mutated, ioFault>>

\* the tree main works on: the scratch directory's or the input directory's
SkelFs == IF isZip THEN tmpFs ELSE srcFs

\* filepath.Walk's visiting order: the root, then the entries in lexical
\* order
WalkOrder(fs) ==
    <<<<>>>> \o SelectSeq(UniverseOrder, LAMBDA q : \E e \in fs : e.path = q)

\* ParseSkeleton and NewSkeleton: without a readable config.xml main exits
\* with status 1
ParseSkeleton ==
    /\ pc = "parse"
    /\ \E openFails \in BOOLEAN :
          IF ConfigXml \notin FilesOf(SkelFs) \/ openFails
          THEN /\ Exit(1)
               /\ ioFault' = (ioFault \/ (ConfigXml \in FilesOf(SkelFs)))
               /\ UNCHANGED Unsubstituted
          ELSE /\ pc' = "input"
               /\ Unsubstituted' = {}
               /\ UNCHANGED <<exitCode, ioFault>>
    /\ UNCHANGED <<KeyValues, substVars, flagIn, flagDryRun, flagVerbose,
                   zipFile, zi, srcFs, tmpDir, tmpFs, isZip, Location,
                   walkTodo, walked, outFs, mutated>>

\* ReadUserInput, and main up to the call of Walk
ReadUserInput ==
    /\ pc = "input"
    /\ KeyValues' \in RunMappings
    /\ walkTodo' = WalkOrder(SkelFs)
    /\ pc' = "walk"
    /\ UNCHANGED <<Unsubstituted, substVars, exitCode, flagIn, flagDryRun,
                   flagVerbose, zipFile, zi, srcFs, tmpDir, tmpFs, isZip,
                   Location, walked, outFs, mutated, ioFault>>

\* the path filepath.Walk hands to walkFunc for an entry of the tree
WalkPath(rel) == IF rel = <<>> THEN Location ELSE Location \o <<SEP>> \o rel

\* walkFunc's newp: every occurrence of the cleaned Location is cut out of
\* the cleaned path
newp(path) == stringsReplace(Clean(path), Clean(Location), <<>>)

\* walkFunc's targetpath before substitution
TargetRaw(path) == Join(<<flagOut, outDirBase, newp(path)>>)

\* the os.FileInfo of an entry of the tree; the root is a directory
InfoOf(fs, rel) ==
    IF rel = <<>> THEN Dir(<<>>) ELSE CHOOSE e \in fs : e.path = rel

\* one call of walkFunc by filepath.Walk.  When Walk could not stat the
\* entry it passes a nil info, and info.IsDir() panics: the process ends
\* with status 2.  walkFunc ignores the errors of MkdirAll, Create and
\* WriteFile, and returns nil after a failed ReadFile.
walkFunc ==
    /\ pc = "walk"
    /\ walkTodo # <<>>
    /\ \E statFails, createFault, readFails, writeFault \in BOOLEAN :
       \E o1, o2 \in RangeOrders(KeyValues) :
          LET rel == Head(walkTodo)
              path == WalkPath(rel)
              info == InfoOf(SkelFs, rel)
              targetpath == findReplace(TargetRaw(path), KeyValues, o1)
              u1 == Record(targetpath, Unsubstituted)
              uDir == IF flagVerbose
                      THEN Record(findReplace(targetpath, KeyValues, o2), u1)
                      ELSE u1
              mkOk == /\ ~flagDryRun
                      /\ CanMkdirAll(outFs, targetpath)
                      /\ ~createFault
              crOk == /\ ~flagDryRun
                      /\ CanCreate(outFs, targetpath)
                      /\ ~createFault
              fs1 == IF crOk THEN PutFile(outFs, targetpath, <<>>) ELSE outFs
              newcontents == findReplace(info.data, KeyValues, o2)
              wrOk == /\ ~flagDryRun
                      /\ ~readFails
                      /\ CanCreate(fs1, targetpath)
                      /\ ~writeFault
          IN  /\ walkTodo' = Tail(walkTodo)
              /\ walked' = Append(walked, [rel |-> rel, target |-> targetpath,
                                           isDir |-> info.isDir])
              /\ ioFault' = (ioFault \/ statFails \/ createFault
                                     \/ readFails \/ writeFault)
              /\ IF statFails
                 THEN /\ Exit(2)
                      /\ Unsubstituted' = u1
                      /\ UNCHANGED <<outFs, mutated>>
                 ELSE IF info.isDir
                 THEN /\ Unsubstituted' = uDir
                      /\ outFs' = IF mkOk THEN MkdirAll(outFs, targetpath)
                                  ELSE outFs
                      /\ mutated' = IF mkOk THEN mutated \cup {"MkdirAll"}
                                    ELSE mutated
                      /\ UNCHANGED <<pc, exitCode>>
                 ELSE /\ Unsubstituted' =
                            IF ~readFails /\ ~flagDryRun
                            THEN Record(newcontents, u1) ELSE u1
                      /\ outFs' = IF wrOk
                                  THEN PutFile(fs1, targetpath, newcontents)
                                  ELSE fs1
                      /\ mutated' = mutated
                                     \cup (IF crOk THEN {"Create"} ELSE {})
                                     \cup (IF wrOk THEN {"WriteFile"} ELSE {})
                      /\ UNCHANGED <<pc, exitCode>>
    /\ UNCHANGED <<KeyValues, substVars, flagIn, flagDryRun, flagVerbose,
                   zipFile, zi, srcFs, tmpDir, tmpFs, isZip, Location>>

\* main after Walk returned: the warning about unsubstituted variables,
\* then cleanup for an archive input, else the end of main
MainAfterWalk ==
    /\ pc = "walk"
    /\ walkTodo = <<>>
    /\ IF isZip
       THEN pc' = "cleanup" /\ UNCHANGED exitCode
       ELSE Exit(0)
    /\ UNCHANGED <<KeyValues, Unsubstituted, substVars, flagIn, flagDryRun,
                   flagVerbose, zipFile, zi, srcFs, tmpDir, tmpFs, isZip,
                   Location, walkTodo, walked, outFs, mutated, ioFault>>

\* a cleanup that main also reaches while Walk is still handing out entries
cleanupDuringWalk ==
    /\ \/ pc = "cleanup"
       \/ pc = "walk" /\ isZip /\ tmpDir = "exists"
    /\ tmpDir' = "removed"
    /\ tmpFs' = {}
    /\ mutated' = mutated \cup {"RemoveAll"}
    /\ IF pc = "cleanup" THEN Exit(0) ELSE UNCHANGED <<pc, exitCode>>
    /\ UNCHANGED <<KeyValues, Unsubstituted, substVars, flagIn, flagDryRun,
                   flagVerbose, zipFile, zi, srcFs, isZip, Location, walkTodo,
                   walked, outFs, ioFault>>

\* cleanup(targetFileDir), then the end of main
cleanup ==
    /\ pc = "cleanup"
    /\ \E removeFails \in BOOLEAN :
          IF removeFails
          THEN /\ Exit(1)
               /\ ioFault' = TRUE
               /\ UNCHANGED <<tmpDir, tmpFs, mutated>>
          ELSE /\ Exit(0)
               /\ tmpDir' = "removed"
               /\ tmpFs' = {}
               /\ mutated' = mutated \cup {"RemoveAll"}
               /\ UNCHANGED ioFault
    /\ UNCHANGED <<KeyValues, Unsubstituted, substVars, flagIn, flagDryRun,
                   flagVerbose, zipFile, zi, srcFs, isZip, Location, walkTodo,
                   walked, outFs>>

Next ==
    \/ MainOpenInput
    \/ UnzipOpen
    \/ UnzipEntry
    \/ UnzipReturn
    \/ ParseSkeleton
    \/ ReadUserInput
    \/ walkFunc
    \/ MainAfterWalk
    \/ cleanup

Spec == Init /\ [][Next]_vars

-----------------------------------------------------------------------------
(* Vocabulary of the substitution claims.                                  *)

\* A placeholder ${name} of text s, name being one or more characters
\* other than "}": it sits at positions i..j of s.
PlaceholderAt(s, i, j) ==
    /\ HasAt(s, <<"$", "{">>, i)
    /\ j >= i + 3
    /\ j <= Len(s)
    /\ s[j] = "}"
    /\ \A m \in (i + 2)..(j - 1) : s[m] # "}"

PlaceholderSpans(s) ==
    {ij \in (1..Len(s)) \X (1..Len(s)) : PlaceholderAt(s, ij[1], ij[2])}

Placeholders(s) == {SubSeq(s, ij[1], ij[2]) : ij \in PlaceholderSpans(s)}

PlaceholderNames(s) ==
    {SubSeq(s, ij[1] + 2, ij[2] - 1) : ij \in PlaceholderSpans(s)}

HasChar(s, c) == \E i \in 1..Len(s) : s[i] = c

\* every "${" of s starts a placeholder whose name is a key of kv
EveryOpenerIsKey(s, kv) ==
    \A i \in 1..Len(s) :
        HasAt(s, <<"$", "{">>, i) =>
            \E k \in DOMAIN kv : HasAt(s, haha(k), i)

\* no "${" of s lies between another "${" and the first "}" after it
NoNesting(s) ==
    \A i, j \in 1..Len(s) :
        (i < j /\ HasAt(s, <<"$", "{">>, i) /\ HasAt(s, <<"$", "{">>, j))
            => \E m \in (i + 2)..(j - 1) : s[m] = "}"

\* the values of kv are non-empty and contain neither "$" nor "{"
PlainValues(kv) ==
    \A k \in DOMAIN kv :
        kv[k] # <<>> /\ ~HasChar(kv[k], "$") /\ ~HasChar(kv[k], "{")

\* what a non-greedy scan "\${(.+?)}" finds: the leftmost match, ended at
\* the first "}" it can end at
NonGreedyFind(s) ==
    IF RegexStarts(s) = {} THEN <<>>
    ELSE LET i == Min(RegexStarts(s))
             j == Min({m \in 1..Len(s) : RegexMatchAt(s, i, m)})
         IN  SubSeq(s, i, j)

-----------------------------------------------------------------------------
(* C3 *)

\* C3 as stated: when every placeholder of the text has a key of the
\* mapping as its name, findReplace returns a text without any placeholder
\* and records nothing as unsubstituted, whatever the values and the order.
C3_AsStated ==
    (calls = 1 /\ PlaceholderNames(src) \subseteq DOMAIN KeyValues)
        => (Placeholders(res1) = {} /\ Unsubstituted = {})

\* C3 amended: when the values are non-empty and contain neither "$" nor
\* "{", and every "${" of the text starts a placeholder whose name is a key,
\* findReplace returns a text without any "${" (so without a placeholder or
\* a match of the scan) and records nothing as unsubstituted.
C3_Amended ==
    (calls = 1 /\ PlainValues(KeyValues) /\ EveryOpenerIsKey(src, KeyValues))
        => (/\ ~Contains(res1, <<"$", "{">>)
            /\ Placeholders(res1) = {}
            /\ Unsubstituted = {})

\* C3 witness: a text with placeholders of two keys was substituted under
\* the amended claim's conditions.
C3_Witness ==
    /\ calls = 1
    /\ PlainValues(KeyValues)
    /\ EveryOpenerIsKey(src, KeyValues)
    /\ DOMAIN KeyValues = Keys
    /\ Contains(src, haha(KeyA))
    /\ Contains(src, haha(KeyB))
    /\ res1 # src

-----------------------------------------------------------------------------
(* C4 *)

\* C4 as stated: each placeholder of the text whose name is not a key is
\* still in the returned text, character for character, and is itself an
\* element of the Unsubstituted set.
C4_EachAbsentRecorded ==
    calls = 1 =>
        \A ij \in PlaceholderSpans(src) :
            SubSeq(src, ij[1] + 2, ij[2] - 1) \notin DOMAIN KeyValues
                => (/\ Contains(res1, SubSeq(src, ij[1], ij[2]))
                    /\ SubSeq(src, ij[1], ij[2]) \in Unsubstituted)

-----------------------------------------------------------------------------
(* C7 *)

\* C7 as stated: when no value contains a placeholder, applying findReplace
\* to its own result returns that result.
C7_AsStated ==
    (calls = 2 /\ \A k \in DOMAIN KeyValues : Placeholders(KeyValues[k]) = {})
        => res2 = res1

\* C7 amended: when the values are non-empty and contain neither "$" nor
\* "{", and no "${" of the text lies between another "${" and the first "}"
\* after it, applying findReplace to its own result returns that result.
C7_Amended ==
    (calls = 2 /\ PlainValues(KeyValues) /\ NoNesting(src))
        => res2 = res1

\* C7 witness: under the amended claim's conditions the first call replaced
\* a placeholder, left another one in place, and the second call ran.
C7_Witness ==
    /\ calls = 2
    /\ PlainValues(KeyValues)
    /\ NoNesting(src)
    /\ DOMAIN KeyValues = {KeyA}
    /\ Contains(src, haha(KeyA))
    /\ Contains(res1, haha(KeyB))
    /\ res1 # src

-----------------------------------------------------------------------------
(* C9 *)

\* C9 as stated: the text findReplace returns is the same for every order
\* in which the mapping is iterated.
C9_OrderIndependent ==
    calls >= 1 =>
        \A o \in RangeOrders(KeyValues) : findReplace(src, KeyValues, o) = res1

-----------------------------------------------------------------------------
(* C10 *)

\* C10 as stated: when the returned text holds two or more placeholders,
\* none inside another,
\* the string recorded as unsubstituted is the first match ended at the
\* first "}" that can end it, never a match running on to a later "}".
C10_FirstPlaceholderAlone ==
    (calls = 1 /\ NoNesting(res1) /\ Cardinality(PlaceholderSpans(res1)) >= 2)
        => Unsubstituted = {NonGreedyFind(res1)}

-----------------------------------------------------------------------------
(* C1 *)

\* C1 as stated: when the run has ended and extraction had created the
\* scratch directory, the scratch directory no longer exists (runs in which
\* a call failed for an outside reason set aside).
C1_ScratchGoneAtExit ==
    (pc = "exited" /\ tmpDir # "none" /\ ~ioFault) => tmpDir = "removed"

-----------------------------------------------------------------------------
(* C2 *)

\* C2 as stated: in a run with the dry-run flag set, no call changes the
\* filesystem.
C2_DryRunMutatesNothing == flagDryRun => mutated = {}

-----------------------------------------------------------------------------
(* C5 *)

\* C5 as stated: the target path of every visited entry is the output
\* root, joined with the per-run sub-directory and the entry's path
\* relative to the skeleton root, passed through substitution; and no two
\* visited entries have the same target path (no entry of the model has a
\* placeholder in its name).
C5_TargetFromRelativePath ==
    /\ \A i \in DOMAIN walked :
          \E o \in RangeOrders(KeyValues) :
              walked[i].target =
                  findReplace(Join(<<flagOut, outDirBase, walked[i].rel>>),
                              KeyValues, o)
    /\ \A i, j \in DOMAIN walked :
          walked[i].rel # walked[j].rel => walked[i].target # walked[j].target

-----------------------------------------------------------------------------
(* C6 *)

\* no entry of the archive is unreadable
WellFormed(z) == \A i \in DOMAIN z : ~z[i].bad

\* Unzip has returned to main, with or without an error
UnzipOver ==
    /\ flagIn = "zip"
    /\ tmpDir = "exists"
    /\ pc = "parse" \/ (pc = "exited" /\ ~isZip)

\* C6 as stated: for a well-formed archive, whatever the order of its
\* entries and whether or not it lists the parent directories, Unzip
\* returns no error and the scratch directory then holds every entry of
\* the archive with its content, and every directory above an entry (runs
\* in which a call failed for an outside reason set aside).
C6_WellFormedArchiveExtracts ==
    (UnzipOver /\ WellFormed(zipFile) /\ ~ioFault)
        => /\ isZip
           /\ \A i \in DOMAIN zipFile :
                 /\ zipFile[i].entry \in tmpFs
                 /\ WithAncestors(zipFile[i].entry.path) \subseteq
                        DirsOf(tmpFs) \cup FilesOf(tmpFs)

-----------------------------------------------------------------------------
(* C8 *)

\* main ended with status 1 because cleanup could not remove the scratch
\* directory
CleanupFailed == isZip /\ tmpDir = "exists" /\ exitCode = 1 /\ walkTodo = <<>>

\* C8 as stated: once the walk has begun, whatever fails on an entry, the
\* run ends only after every entry of the tree was handed to walkFunc, and
\* it ends with status zero (unless cleanup fails afterwards).
C8_WalkSurvivesEntryFailures ==
    (pc = "exited" /\ walked # <<>>)
        => (walkTodo = <<>> /\ (exitCode = 0 \/ CleanupFailed))

-----------------------------------------------------------------------------
(* C11 *)

\* C11: with an archive input the scratch directory is removed only after
\* the walk has finished: while walkFunc calls are still to come the scratch
\* directory exists, and once it has been removed the walk has begun, no
\* entry is left to visit and main has ended.
C11_RemovalOnlyAfterWalk ==
    /\ (pc = "walk" /\ isZip) => tmpDir = "exists"
    /\ tmpDir = "removed"
          => (walked # <<>> /\ walkTodo = <<>> /\ pc = "exited")

\* C11 witness: an archive with all three entries was extracted, every
\* entry and the root were walked, and the scratch directory was removed.
C11_Witness ==
    /\ flagIn = "zip"
    /\ tmpDir = "removed"
    /\ Len(walked) = Len(UniverseOrder) + 1
    /\ exitCode = 0

====
